---- MODULE Spec2Model ----
(***************************************************************************)
(* Model of pkg/model/filesystem/file_contents_list_object_parser.go:      *)
(* NewFileContentsEntryFromProto and fileContentsListObjectParser's        *)
(* ParseObject.  uint64 arithmetic is modelled at a reduced width (Width   *)
(* bits instead of 64); all arithmetic on the accumulator is taken modulo  *)
(* 2^Width, as the Go code's arithmetic is modulo 2^64.                    *)
(***************************************************************************)
EXTENDS Integers, Sequences, FiniteSets, TLC

\* ------------------------------------------------------------------ bounds
\* Number of bits of the modelled unsigned integer type (uint64 in the code).
Width == 3
\* Largest number of descriptors in a decoded message list.
MaxLen == 3

\* math.MaxUint64 at the modelled width.
MaxUint64 == 2^Width - 1

\* ------------------------------------------------------------ input domains
\* Declared sizes (FileContents.total_size_bytes): the values around both
\* ends of the range, where the checks of ParseObject change their outcome.
Sizes == {0, 1, 2, MaxUint64 - 1, MaxUint64}

\* Absolute references stored in an outgoing references table.
\* BogusReference is what GetBogusReference() returns; ZeroReference is the
\* zero value of TReference ("var bad TReference").
BogusReference == "bogus"
ZeroReference == "zero"

\* Outgoing references tables (object.OutgoingReferences), addressed by
\* position.
OutgoingTables == {<<"refB">>, <<"refB", "refA">>}

\* Embedded reference of a descriptor: the position it names in the outgoing
\* references table.  0 and positions beyond the table are invalid.
EmbeddedReferences == {0, 1, 2}

\* FileContents Protobuf message.
Descriptors == [TotalSizeBytes : Sizes, Reference : EmbeddedReferences]

RECURSIVE SeqsUpTo(_, _)
SeqsUpTo(S, n) ==
    IF n = 0 THEN {<<>>}
    ELSE LET shorter == SeqsUpTo(S, n - 1)
         IN  shorter \cup {Append(s, x) : s \in {t \in shorter : Len(t) = n - 1}, x \in S}

\* Raw object contents handed to ParseObject: either malformed, or the
\* encoding of a list of descriptors occupying `length` bytes.
DataLengths == {5, 9}
RawData ==
    {[wellFormed |-> FALSE, parts |-> <<>>, length |-> n] : n \in DataLengths}
    \cup [wellFormed : {TRUE}, parts : SeqsUpTo(Descriptors, MaxLen), length : DataLengths]

\* Argument of NewFileContentsEntryFromProto: Message is nil or a descriptor.
Nil == [TotalSizeBytes |-> 0, Reference |-> 0, isNil |-> TRUE]
Present(d) == [TotalSizeBytes |-> d.TotalSizeBytes, Reference |-> d.Reference, isNil |-> FALSE]
OptionalDescriptors == {Nil} \cup {Present(d) : d \in Descriptors}

\* ------------------------------------------------------------------ errors
\* A gRPC status: a code and a chain of messages, outermost first.  Each
\* message carries the argument formatted into it (an index or a limit).
NoError == [code |-> "OK", chain |-> <<>>]
StatusError(code, text, arg) == [code |-> code, chain |-> <<[text |-> text, arg |-> arg]>>]
\* util.StatusWrapf: keeps the code, prepends the formatted message.
StatusWrapf(err, text, arg) ==
    [code |-> err.code, chain |-> <<[text |-> text, arg |-> arg]>> \o err.chain]

ErrTooFewParts == StatusError("InvalidArgument", "File contents list contains fewer than two parts", -1)
\* Variant: the index is reported 1-based.
ErrEmptyPart_OneBased(i) == StatusError("InvalidArgument", "Part at index %d does not contain any data", i + 1)
ErrEmptyPart(i) == StatusError("InvalidArgument", "Part at index %d does not contain any data", i)
ErrOverflow == StatusError("InvalidArgument", "Combined size of all parts exceeds maximum file size of %d bytes", MaxUint64)
ErrDecode == StatusError("DecodeFailed", "Malformed message list", -1)
ErrFlatten(ref) == StatusError("DataIntegrity", "Invalid embedded reference %d", ref)
WrapTextInvalidReference == "Invalid reference for part at index %d"

\* ---------------------------------------------------------- collaborators
\* model_core.FlattenReference: resolves an embedded reference against the
\* outgoing references table.
FlattenReference(ref, outgoing) ==
    IF ref >= 1 /\ ref <= Len(outgoing)
    THEN [reference |-> outgoing[ref], err |-> NoError]
    ELSE [reference |-> ZeroReference, err |-> ErrFlatten(ref)]

\* model_parser.NewMessageListObjectParser().ParseObject: decodes raw data
\* into a list of messages and the number of bytes it occupies.
MessageListParseObject(raw) ==
    IF raw.wellFormed
    THEN [Message |-> raw.parts, sizeBytes |-> raw.length, err |-> NoError]
    ELSE [Message |-> <<>>, sizeBytes |-> 0, err |-> ErrDecode]

\* --------------------------------------------------------- pure fragments
\* uint64 addition.
AddUint64(a, b) == (a + b) % (2^Width)

\* Variant: a single part is let through.
TooFewParts_AllowsOne(message) == Len(message) < 1

\* Line 82.
TooFewParts(message) == Len(message) < 2

\* Variant: the emptiness check never fires.
PartIsEmpty_Never(part) == part.TotalSizeBytes < 0

\* Line 91.
PartIsEmpty(part) == part.TotalSizeBytes < 1

\* Variant: the overflow check never fires, so the addition wraps.
ExceedsMaximum_Never(size, endBytes) == FALSE

\* Line 94.
ExceedsMaximum(size, endBytes) == size > MaxUint64 - endBytes

\* Variant: each entry records its own size instead of the running total.
LoopBody_NotCumulative(part, i, endBytes, fileContentsList, outgoing) ==
    IF PartIsEmpty(part)
    THEN [err |-> ErrEmptyPart(i), endBytes |-> endBytes,
          fileContentsList |-> fileContentsList, flattened |-> FALSE]
    ELSE IF ExceedsMaximum(part.TotalSizeBytes, endBytes)
    THEN [err |-> ErrOverflow, endBytes |-> endBytes,
          fileContentsList |-> fileContentsList, flattened |-> FALSE]
    ELSE LET newEnd == AddUint64(endBytes, part.TotalSizeBytes)
             f == FlattenReference(part.Reference, outgoing)
         IN  IF f.err # NoError
             THEN [err |-> StatusWrapf(f.err, WrapTextInvalidReference, i), endBytes |-> newEnd,
                   fileContentsList |-> fileContentsList, flattened |-> TRUE]
             ELSE [err |-> NoError, endBytes |-> newEnd,
                   fileContentsList |->
                       Append(fileContentsList,
                              [EndBytes |-> part.TotalSizeBytes, Reference |-> f.reference]),
                   flattened |-> TRUE]

\* Variant: the addition is done first and the overflow is detected
\* afterwards, from the wrapped sum.
LoopBody_CheckAfterAdd(part, i, endBytes, fileContentsList, outgoing) ==
    IF PartIsEmpty(part)
    THEN [err |-> ErrEmptyPart(i), endBytes |-> endBytes,
          fileContentsList |-> fileContentsList, flattened |-> FALSE]
    ELSE LET newEnd == AddUint64(endBytes, part.TotalSizeBytes)
             f == FlattenReference(part.Reference, outgoing)
         IN  IF newEnd < endBytes
             THEN [err |-> ErrOverflow, endBytes |-> newEnd,
                   fileContentsList |-> fileContentsList, flattened |-> FALSE]
             ELSE IF f.err # NoError
             THEN [err |-> StatusWrapf(f.err, WrapTextInvalidReference, i), endBytes |-> newEnd,
                   fileContentsList |-> fileContentsList, flattened |-> TRUE]
             ELSE [err |-> NoError, endBytes |-> newEnd,
                   fileContentsList |->
                       Append(fileContentsList, [EndBytes |-> newEnd, Reference |-> f.reference]),
                   flattened |-> TRUE]

\* Variant: the reference is flattened before the size is checked.
LoopBody_FlattenFirst(part, i, endBytes, fileContentsList, outgoing) ==
    LET f == FlattenReference(part.Reference, outgoing)
    IN  IF f.err # NoError
        THEN [err |-> StatusWrapf(f.err, WrapTextInvalidReference, i), endBytes |-> endBytes,
              fileContentsList |-> fileContentsList, flattened |-> TRUE]
        ELSE IF PartIsEmpty(part)
        THEN [err |-> ErrEmptyPart(i), endBytes |-> endBytes,
              fileContentsList |-> fileContentsList, flattened |-> TRUE]
        ELSE IF ExceedsMaximum(part.TotalSizeBytes, endBytes)
        THEN [err |-> ErrOverflow, endBytes |-> endBytes,
              fileContentsList |-> fileContentsList, flattened |-> TRUE]
        ELSE LET newEnd == AddUint64(endBytes, part.TotalSizeBytes)
             IN  [err |-> NoError, endBytes |-> newEnd,
                  fileContentsList |->
                      Append(fileContentsList, [EndBytes |-> newEnd, Reference |-> f.reference]),
                  flattened |-> TRUE]

\* One iteration of the loop of ParseObject (lines 88-108) on `part` at index
\* i with accumulator endBytes.  Yields the error (if any), the accumulator
\* and list as the iteration leaves them, and whether FlattenReference ran.
LoopBody(part, i, endBytes, fileContentsList, outgoing) ==
    IF PartIsEmpty(part)
    THEN [err |-> ErrEmptyPart(i), endBytes |-> endBytes,
          fileContentsList |-> fileContentsList, flattened |-> FALSE]
    ELSE IF ExceedsMaximum(part.TotalSizeBytes, endBytes)
    THEN [err |-> ErrOverflow, endBytes |-> endBytes,
          fileContentsList |-> fileContentsList, flattened |-> FALSE]
    ELSE LET newEnd == AddUint64(endBytes, part.TotalSizeBytes)
             f == FlattenReference(part.Reference, outgoing)
         IN  IF f.err # NoError
             THEN [err |-> StatusWrapf(f.err, WrapTextInvalidReference, i), endBytes |-> newEnd,
                   fileContentsList |-> fileContentsList, flattened |-> TRUE]
             ELSE [err |-> NoError, endBytes |-> newEnd,
                   fileContentsList |->
                       Append(fileContentsList, [EndBytes |-> newEnd, Reference |-> f.reference]),
                   flattened |-> TRUE]

\* Variant: a failing path hands back what was built so far.
FailureReturn_Partial(fileContentsList, sizeBytes, err) ==
    [list |-> fileContentsList, sizeBytes |-> sizeBytes, err |-> err]

\* What ParseObject returns on a failing path (lines 80, 83, 92, 95, 101).
FailureReturn(fileContentsList, sizeBytes, err) ==
    [list |-> <<>>, sizeBytes |-> 0, err |-> err]

\* What ParseObject returns on success (line 109).
SuccessReturn(fileContentsList, sizeBytes) ==
    [list |-> fileContentsList, sizeBytes |-> sizeBytes, err |-> NoError]

\* Variant: no special case for an absent descriptor.
EntryFromProto_NoNilCase(fileContents, outgoing) ==
    LET f == FlattenReference(fileContents.Reference, outgoing)
    IN  IF f.err # NoError
        THEN [entry |-> [EndBytes |-> 0, Reference |-> ZeroReference],
              err |-> f.err, flattened |-> TRUE]
        ELSE [entry |-> [EndBytes |-> fileContents.TotalSizeBytes, Reference |-> f.reference],
              err |-> NoError, flattened |-> TRUE]

\* Variant: a present descriptor of size 0 is rejected, as in ParseObject.
EntryFromProto_RejectsEmpty(fileContents, outgoing) ==
    IF fileContents.isNil
    THEN [entry |-> [EndBytes |-> 0, Reference |-> BogusReference],
          err |-> NoError, flattened |-> FALSE]
    ELSE IF fileContents.TotalSizeBytes < 1
    THEN [entry |-> [EndBytes |-> 0, Reference |-> ZeroReference],
          err |-> ErrEmptyPart(0), flattened |-> FALSE]
    ELSE LET f == FlattenReference(fileContents.Reference, outgoing)
         IN  IF f.err # NoError
             THEN [entry |-> [EndBytes |-> 0, Reference |-> ZeroReference],
                   err |-> f.err, flattened |-> TRUE]
             ELSE [entry |-> [EndBytes |-> fileContents.TotalSizeBytes, Reference |-> f.reference],
                   err |-> NoError, flattened |-> TRUE]

\* NewFileContentsEntryFromProto (lines 27-53).
EntryFromProto(fileContents, outgoing) ==
    IF fileContents.isNil
    THEN [entry |-> [EndBytes |-> 0, Reference |-> BogusReference],
          err |-> NoError, flattened |-> FALSE]
    ELSE LET f == FlattenReference(fileContents.Reference, outgoing)
         IN  IF f.err # NoError
             THEN [entry |-> [EndBytes |-> 0, Reference |-> ZeroReference],
                   err |-> f.err, flattened |-> TRUE]
             ELSE [entry |-> [EndBytes |-> fileContents.TotalSizeBytes, Reference |-> f.reference],
                   err |-> NoError, flattened |-> TRUE]


\* File contents iterator, point lookup: binary search for the first entry
\* whose EndBytes exceeds the offset.  Yields the (0-based) index of the
\* owning entry, or Len(list) when the offset is past the end of the file.
RECURSIVE SearchEndBytes(_, _, _, _)
SearchEndBytes(list, offset, lo, hi) ==
    IF lo >= hi THEN lo
    ELSE LET h == (lo + hi) \div 2
         IN  IF list[h + 1].EndBytes > offset
             THEN SearchEndBytes(list, offset, lo, h)
             ELSE SearchEndBytes(list, offset, h + 1, hi)

Lookup(list, offset) == SearchEndBytes(list, offset, 0, Len(list))
PastEndOfFile(list) == Len(list)

\* ------------------------------------------------------------------- state
VARIABLES
    pc,                 \* "idle", "loop", "returned", "entryReturned"
    data,               \* ParseObject's argument data
    outgoingReferences, \* the outgoing references table of the call
    l,                  \* result of the underlying message list parser
    i,                  \* loop index of ParseObject (0-based, as in the code)
    endBytes,           \* local endBytes
    fileContentsList,   \* local fileContentsList
    flattenCalls,       \* indices at which FlattenReference was invoked
    ret,                \* what ParseObject returned
    fileContents,       \* NewFileContentsEntryFromProto's argument
    entryRet            \* what NewFileContentsEntryFromProto returned

vars == <<pc, data, outgoingReferences, l, i, endBytes, fileContentsList,
          flattenCalls, ret, fileContents, entryRet>>

NoReturn == [list |-> <<>>, sizeBytes |-> 0, err |-> NoError]
NoData == [wellFormed |-> FALSE, parts |-> <<>>, length |-> 0]
NoParse == [Message |-> <<>>, sizeBytes |-> 0, err |-> NoError]
NoEntryReturn == [entry |-> [EndBytes |-> 0, Reference |-> ZeroReference],
                  err |-> NoError, flattened |-> FALSE]

Init ==
    /\ pc = "idle"
    /\ data = NoData
    /\ outgoingReferences = <<>>
    /\ l = NoParse
    /\ i = 0
    /\ endBytes = 0
    /\ fileContentsList = <<>>
    /\ flattenCalls = <<>>
    /\ ret = NoReturn
    /\ fileContents = Nil
    /\ entryRet = NoEntryReturn

\* ParseObject, lines 76-87: the underlying parse, the length check and the
\* initialisation of the loop.
ParseObjectBegin ==
    /\ pc = "idle"
    /\ \E raw \in RawData, outgoing \in OutgoingTables :
        LET parsed == MessageListParseObject(raw)
        IN  /\ data' = raw
            /\ outgoingReferences' = outgoing
            /\ l' = parsed
            /\ i' = 0
            /\ endBytes' = 0
            /\ fileContentsList' = <<>>
            /\ flattenCalls' = <<>>
            /\ IF parsed.err # NoError
               THEN /\ ret' = FailureReturn(<<>>, parsed.sizeBytes, parsed.err)
                    /\ pc' = "returned"
               ELSE IF TooFewParts(parsed.Message)
               THEN /\ ret' = FailureReturn(<<>>, parsed.sizeBytes, ErrTooFewParts)
                    /\ pc' = "returned"
               ELSE /\ ret' = NoReturn
                    /\ pc' = "loop"
    /\ UNCHANGED <<fileContents, entryRet>>

\* ParseObject, lines 88-108: one iteration of the loop.
ParseObjectIterate ==
    /\ pc = "loop"
    /\ i < Len(l.Message)
    /\ LET out == LoopBody(l.Message[i + 1], i, endBytes, fileContentsList, outgoingReferences)
       IN  /\ endBytes' = out.endBytes
           /\ fileContentsList' = out.fileContentsList
           /\ flattenCalls' = IF out.flattened THEN Append(flattenCalls, i) ELSE flattenCalls
           /\ IF out.err # NoError
              THEN /\ ret' = FailureReturn(out.fileContentsList, l.sizeBytes, out.err)
                   /\ pc' = "returned"
                   /\ i' = i
              ELSE /\ ret' = ret
                   /\ pc' = "loop"
                   /\ i' = i + 1
    /\ UNCHANGED <<data, outgoingReferences, l, fileContents, entryRet>>

\* ParseObject, line 109: the loop is over.
ParseObjectReturn ==
    /\ pc = "loop"
    /\ i = Len(l.Message)
    /\ ret' = SuccessReturn(fileContentsList, l.sizeBytes)
    /\ pc' = "returned"
    /\ UNCHANGED <<data, outgoingReferences, l, i, endBytes, fileContentsList,
                   flattenCalls, fileContents, entryRet>>

\* NewFileContentsEntryFromProto, lines 27-53.
NewFileContentsEntryFromProto ==
    /\ pc = "idle"
    /\ \E fc \in OptionalDescriptors, outgoing \in OutgoingTables :
        /\ fileContents' = fc
        /\ outgoingReferences' = outgoing
        /\ entryRet' = EntryFromProto(fc, outgoing)
    /\ pc' = "entryReturned"
    /\ UNCHANGED <<data, l, i, endBytes, fileContentsList, flattenCalls, ret>>

Next ==
    \/ ParseObjectBegin
    \/ ParseObjectIterate
    \/ ParseObjectReturn
    \/ NewFileContentsEntryFromProto

Spec == Init /\ [][Next]_vars

\* ------------------------------------------------- vocabulary of the claims
\* The descriptor sequence and index helpers.  Indices are 0-based, as in the
\* code and its error messages.
Parts == l.Message
Indices == 0 .. (Len(Parts) - 1)
PartAt(k) == Parts[k + 1]

\* The true (unbounded) sum of the first n declared sizes.
RECURSIVE ExactSum(_, _)
ExactSum(parts, n) ==
    IF n = 0 THEN 0 ELSE ExactSum(parts, n - 1) + parts[n].TotalSizeBytes

ZeroAt(k) == PartAt(k).TotalSizeBytes = 0
OverflowAt(k) == ExactSum(Parts, k + 1) > MaxUint64
FlattenOf(k) == FlattenReference(PartAt(k).Reference, outgoingReferences)
FlattenFailsAt(k) == FlattenOf(k).err # NoError

ParseReturned == pc = "returned"
ParseSucceeded == ParseReturned /\ ret.err = NoError
ParseFailed == ParseReturned /\ ret.err # NoError
DecodeSucceeded == pc \in {"loop", "returned"} /\ l.err = NoError

\* C1: on every successful ParseObject the returned list has EndBytes[0] > 0
\* and EndBytes strictly increasing.
C1_EndBytesStrictlyIncreasing ==
    ParseSucceeded =>
        /\ Len(ret.list) >= 1
        /\ ret.list[1].EndBytes > 0
        /\ \A k \in 2 .. Len(ret.list) : ret.list[k].EndBytes > ret.list[k - 1].EndBytes

C1_Witness ==
    /\ ParseSucceeded
    /\ Len(ret.list) = 2
    /\ ret.list[1].EndBytes = 1
    /\ ret.list[2].EndBytes = MaxUint64

\* C2: on success the list has one entry per descriptor (at least two), entry
\* k holds the exact sum of the sizes up to k and the flattened reference of
\* descriptor k, and the byte count is the underlying parser's.
C2_EntriesMatchDescriptors ==
    ParseSucceeded =>
        /\ Len(ret.list) = Len(Parts)
        /\ Len(ret.list) >= 2
        /\ \A k \in Indices :
            /\ ret.list[k + 1].EndBytes = ExactSum(Parts, k + 1)
            /\ ~FlattenFailsAt(k)
            /\ ret.list[k + 1].Reference = FlattenOf(k).reference
        /\ ret.sizeBytes = MessageListParseObject(data).sizeBytes

C2_Witness ==
    /\ ParseSucceeded
    /\ Len(Parts) = 3
    /\ PartAt(0).Reference # PartAt(1).Reference
    /\ PartAt(1).TotalSizeBytes = 2
    /\ ret.list[3].EndBytes = 2 + 2 + 2

\* C3: a successfully decoded sequence of fewer than two descriptors fails
\* with InvalidArgument, whatever it contains, without flattening anything.
C3_FewerThanTwoPartsRejected ==
    (ParseReturned /\ l.err = NoError /\ Len(Parts) < 2) =>
        /\ ret.err = ErrTooFewParts
        /\ ret.err.code = "InvalidArgument"
        /\ flattenCalls = <<>>

C3_Witness ==
    /\ ParseReturned
    /\ l.err = NoError
    /\ Len(Parts) = 1
    /\ ~ZeroAt(0)
    /\ ~FlattenFailsAt(0)
    /\ ret.err = ErrTooFewParts

\* C4: with at least two descriptors, if k is the first zero-size index and
\* no index before k overflows or fails to flatten, ParseObject fails with
\* InvalidArgument naming k; a list with a zero-size descriptor never
\* decodes successfully.
C4_ZeroSizePartRejected ==
    (ParseReturned /\ l.err = NoError /\ Len(Parts) >= 2) =>
        \A k \in Indices :
            ZeroAt(k) =>
                /\ ret.err # NoError
                /\ ( /\ \A j \in 0 .. (k - 1) : ~ZeroAt(j) /\ ~OverflowAt(j) /\ ~FlattenFailsAt(j) )
                   => ( /\ ret.err = ErrEmptyPart(k)
                        /\ ret.err.code = "InvalidArgument"
                        /\ ret.err.chain[1].arg = k )

C4_Witness ==
    /\ ParseFailed
    /\ Len(Parts) = 3
    /\ ~ZeroAt(0) /\ ~ZeroAt(1) /\ ZeroAt(2)
    /\ ret.err = ErrEmptyPart(2)

\* C5: the accumulator never wraps: it is always the exact sum of the sizes
\* added so far; the first index at which the exact sum would exceed the
\* maximum fails with the overflow error, leaving the accumulator at its
\* value before that index; a sum equal to the maximum is accepted.
C5_AccumulatorNeverWraps ==
    /\ pc = "loop" => endBytes = ExactSum(Parts, i)
    /\ ParseSucceeded => endBytes = ExactSum(Parts, Len(Parts))
    /\ (ParseReturned /\ l.err = NoError /\ Len(Parts) >= 2) =>
        /\ \A k \in Indices :
            ( /\ OverflowAt(k)
              /\ ~ZeroAt(k)
              /\ \A j \in 0 .. (k - 1) : ~ZeroAt(j) /\ ~OverflowAt(j) /\ ~FlattenFailsAt(j) )
            => ( /\ ret.err = ErrOverflow
                 /\ ret.err.code = "InvalidArgument"
                 /\ i = k
                 /\ endBytes = ExactSum(Parts, k) )
        /\ ( /\ ExactSum(Parts, Len(Parts)) <= MaxUint64
             /\ \A k \in Indices : ~ZeroAt(k) /\ ~FlattenFailsAt(k) )
           => ret.err = NoError

C5_Witness ==
    /\ ParseFailed
    /\ ret.err = ErrOverflow
    /\ i = 1
    /\ PartAt(0).TotalSizeBytes = MaxUint64 - 1
    /\ PartAt(1).TotalSizeBytes = 2
    /\ endBytes = MaxUint64 - 1

\* C6: every failing path of ParseObject returns a nil list and a byte count
\* of 0, also when entries were already appended.
C6_NoPartialResultOnFailure ==
    ParseFailed => (ret.list = <<>> /\ ret.sizeBytes = 0)

C6_Witness ==
    /\ ParseFailed
    /\ Len(Parts) = 3
    /\ i = 2
    /\ Len(fileContentsList) = 2
    /\ FlattenFailsAt(2)
    /\ l.sizeBytes > 0

\* C7: NewFileContentsEntryFromProto on an absent descriptor succeeds with
\* {EndBytes: 0, Reference: bogus} and never flattens.
C7_AbsentDescriptorYieldsBogus ==
    (pc = "entryReturned" /\ fileContents.isNil) =>
        /\ entryRet.err = NoError
        /\ entryRet.entry = [EndBytes |-> 0, Reference |-> BogusReference]
        /\ ~entryRet.flattened

C7_Witness ==
    /\ pc = "entryReturned"
    /\ fileContents.isNil
    /\ Len(outgoingReferences) = 2
    /\ entryRet.entry.Reference = BogusReference

\* C8: NewFileContentsEntryFromProto on a present descriptor checks nothing
\* about the size: it returns {size, flatten(ref)} when flattening succeeds
\* and the Flattener's own error, with no entry, when it fails.
C8_PresentDescriptorUnchecked ==
    (pc = "entryReturned" /\ ~fileContents.isNil) =>
        LET f == FlattenReference(fileContents.Reference, outgoingReferences)
        IN  IF f.err = NoError
            THEN /\ entryRet.err = NoError
                 /\ entryRet.entry =
                        [EndBytes |-> fileContents.TotalSizeBytes, Reference |-> f.reference]
            ELSE /\ entryRet.err = f.err
                 /\ entryRet.entry = [EndBytes |-> 0, Reference |-> ZeroReference]

C8_Witness ==
    /\ pc = "entryReturned"
    /\ ~fileContents.isNil
    /\ fileContents.TotalSizeBytes = 0
    /\ entryRet.err = NoError
    /\ entryRet.entry = [EndBytes |-> 0, Reference |-> "refA"]

\* C9: in a successfully decoded list every offset below the last EndBytes
\* belongs to exactly one entry (EndBytes[k-1] <= offset < EndBytes[k], with
\* EndBytes[-1] = 0), the binary search returns that entry, and every offset
\* at or beyond the last EndBytes is reported as past the end of the file.
PreviousEndBytes(list, k) == IF k = 0 THEN 0 ELSE list[k].EndBytes
Owners(list, offset) ==
    {k \in 0 .. (Len(list) - 1) :
        PreviousEndBytes(list, k) <= offset /\ offset < list[k + 1].EndBytes}

C9_BinarySearchLocatesOwner ==
    ParseSucceeded =>
        /\ Len(ret.list) >= 1
        /\ \A offset \in 0 .. MaxUint64 :
            IF offset < ret.list[Len(ret.list)].EndBytes
            THEN /\ Cardinality(Owners(ret.list, offset)) = 1
                 /\ Lookup(ret.list, offset) \in Owners(ret.list, offset)
            ELSE Lookup(ret.list, offset) = PastEndOfFile(ret.list)

C9_Witness ==
    /\ ParseSucceeded
    /\ Len(ret.list) = 3
    /\ ret.list[1].EndBytes = 2
    /\ ret.list[2].EndBytes = 3
    /\ ret.list[3].EndBytes = 5
    /\ Lookup(ret.list, 2) = 1
    /\ Lookup(ret.list, 4) = 2
    /\ Lookup(ret.list, 5) = PastEndOfFile(ret.list)

\* C10: ParseObject reports the first failure in walk order (zero size, then
\* overflow, then flattening, index by index): a flatten failure at the first
\* failing index is returned wrapped with that index and with its own code,
\* whatever later indices hold; FlattenReference runs for exactly the indices
\* that passed their size and overflow checks, in order, up to the first
\* failure.
C10_FirstFailureInWalkOrder ==
    DecodeSucceeded =>
        /\ \A n \in 1 .. Len(flattenCalls) :
            /\ flattenCalls[n] = n - 1
            /\ ~ZeroAt(n - 1)
            /\ ~OverflowAt(n - 1)
            /\ n < Len(flattenCalls) => ~FlattenFailsAt(n - 1)
        /\ pc = "loop" => (Len(flattenCalls) = i /\ (i > 0 => ~FlattenFailsAt(i - 1)))
        /\ (ParseReturned /\ Len(Parts) >= 2) =>
            /\ \A k \in Indices :
                ( /\ FlattenFailsAt(k)
                  /\ \A j \in 0 .. k : ~ZeroAt(j) /\ ~OverflowAt(j)
                  /\ \A j \in 0 .. (k - 1) : ~FlattenFailsAt(j) )
                => ( /\ ret.err = StatusWrapf(FlattenOf(k).err, WrapTextInvalidReference, k)
                     /\ ret.err.code = FlattenOf(k).err.code
                     /\ Len(flattenCalls) = k + 1 )
            /\ (ret.err = ErrOverflow \/ \E k \in Indices : ret.err = ErrEmptyPart(k))
                => Len(flattenCalls) = i

C10_Witness ==
    /\ ParseFailed
    /\ Len(Parts) = 3
    /\ ~FlattenFailsAt(0)
    /\ FlattenFailsAt(1)
    /\ ZeroAt(2)
    /\ flattenCalls = <<0, 1>>
    /\ ret.err.code = "DataIntegrity"
    /\ ret.err.chain[1] = [text |-> WrapTextInvalidReference, arg |-> 1]

====
